---- MODULE Spec2Model ----
(***************************************************************************)
(* The validator core of kailua: validate() spawns the chain-watcher       *)
(* (handle_proposals) and the prover-driver (handle_proofs), which talk    *)
(* over a duplex channel.  The chain (factory, tournament contract), the   *)
(* RPC endpoints and the prover subprocess are the environment.            *)
(***************************************************************************)
EXTENDS Integers, Sequences, FiniteSets, TLC

(***************************************************************************)
(* Bounds of the model.                                                    *)
(***************************************************************************)
\* Number of proposals (children of the anchor) the factory ever holds.
MaxProposals == 3
\* Capacity K of each queue of the duplex channel.  validate() creates the
\* pair with 4096; the model scales it down so that a full queue happens.
ChannelCapacity == 1
\* Outputs per proposal: output_block_number - parent.output_block_number.
ProposalBlockCount == 2

\* output_block_number of the anchor, the parent of every modelled proposal.
AnchorBlock == 1

\* Capacity N of the CachingOracle's LRU.  The client creates it with
\* ORACLE_LRU_SIZE = 1024; the model scales it down so that evictions happen.
LruCapacity == 2
\* Preimage values are 0..MaxValue.
MaxValue == 2
\* Number of distinct 31-byte content portions of a PreimageKey.
ContentSpace == 2

\* "No value" of an Option<u64> / Option<usize>.
None == 0 - 1

Proposals == 1..MaxProposals
\* Output positions of a proposal, zero based; the last one is output_root.
Positions == 0..(ProposalBlockCount - 1)
\* The outputs a modelled proposal may publish: the canonical output (0) up to
\* a position d and a deviating one (1) from d on; d = ProposalBlockCount is
\* the canonical proposal.
OutputVectors ==
    {[pos \in Positions |-> IF pos < d THEN 0 ELSE 1] : d \in 0..ProposalBlockCount}
\* output_block_number of every child of the anchor.
OutputBlock == AnchorBlock + ProposalBlockCount
\* Values a journal may claim as claimed_l2_block_number: the blocks of the
\* proposal, one block below (the parent's) and one above.
JournalBlocks == AnchorBlock..(OutputBlock + 1)
\* The inner forms of a Receipt that the prover's artifact may hold.
ReceiptKinds == {"groth16_valid", "groth16_invalid", "fake", "fake_pruned", "composite"}

VARIABLES
    devnet,              \* the build has feature "devnet" (developer mode)
    outputs,             \* chain: outputs[p][pos], the outputs of proposal p
    proofStatus,         \* chain: proofStatus[<<u, v>>] of the anchor's tournament
    next_factory_index,  \* kailua_db.state.next_factory_index (slots classified)
    loaded_proposals,    \* what is left of the batch load_proposals returned
    pcW,                 \* position of handle_proposals
    curW,                \* the request being sent / the reply being processed
    pcP,                 \* position of handle_proofs
    jobP,                \* the request the prover-driver works on / its reply
    children,            \* number of live kailua-host subprocesses
    reqQ,                \* channel: watcher -> prover queue
    repQ,                \* channel: prover -> watcher queue
    pcV,                 \* position of validate
    hist,                \* history of what happened (for the properties only)
    oracle,              \* guest side: the CachingOracle's LRU and the last call
    hint,                \* the last hint written through RISCZeroOracle::write
    stream,              \* host side: the POSIXPreimageOracleClient endpoint
    files,               \* the proof artifacts in the prover's data directory
    submission,          \* the data of the last prove transaction prepared
    treasury,            \* the watcher's Treasury and the contract it mirrors
    tasks                \* callers of one CachingOracle and its spin lock

vars == <<devnet, outputs, proofStatus, next_factory_index, loaded_proposals,
          pcW, curW, pcP, jobP, children, reqQ, repQ, pcV, hist,
          oracle, hint, stream, files, submission, treasury, tasks>>

\* The validator's two tasks, their channel and the chain.
coreVars == <<devnet, outputs, proofStatus, next_factory_index, loaded_proposals,
              pcW, curW, pcP, jobP, children, reqQ, repQ, pcV, hist>>
\* What lives outside the two tasks: the oracle clients of the guest and the
\* host, the artifacts, the submission data, the Treasury.
sideVars == <<oracle, hint, stream, files, submission, treasury, tasks>>

chainVars == <<devnet, outputs>>
watcherVars == <<next_factory_index, loaded_proposals, pcW, curW>>
proverVars == <<pcP, jobP, children>>

(***************************************************************************)
(* Proposal model (db/proposal.rs) and proposal database (db/mod.rs).      *)
(***************************************************************************)
\* Proposal::output_at(pos): io_field_elements[pos], the last being output_root.
output_at(p, pos) == outputs[p][pos]

\* Proposal::divergence_point(other): the least position where they differ.
divergence_point(c, p) ==
    IF \E i \in Positions : output_at(c, i) # output_at(p, i)
    THEN CHOOSE i \in Positions :
            /\ output_at(c, i) # output_at(p, i)
            /\ \A j \in Positions : j < i => output_at(c, j) = output_at(p, j)
    ELSE None

\* Contender election of load_proposals: the first earlier child of the parent
\* whose outputs disagree with p somewhere.
contender(p) ==
    IF \E c \in Proposals : c < p /\ divergence_point(c, p) # None
    THEN CHOOSE c \in Proposals :
            /\ c < p /\ divergence_point(c, p) # None
            /\ \A b \in Proposals : (b < c) => divergence_point(b, p) = None
    ELSE None

\* Proposal::child_index(child): insertion rank of a child in the tournament.
child_index(p) == p - 1

\* Proposal::has_precondition_for(pos).
has_precondition_for(pos) == pos > 0 /\ pos + 1 < ProposalBlockCount

Ranks == 0..(MaxProposals - 1)
Matches == Ranks \X Ranks

\* The match <<u, v>> of proposal p with its contender.
MatchOf(p) == <<child_index(contender(p)), child_index(p)>>
\* The on-chain status of that match; None for a proposal without contender.
OnChainStatus(p) == IF contender(p) = None THEN None ELSE proofStatus[MatchOf(p)]


(***************************************************************************)
(* Duplex channel (channel.rs): two bounded FIFO queues.  An endpoint is   *)
(* dropped, and so closed, when the task that owns it ends.                *)
(***************************************************************************)
Ended == {"err", "panic"}

\* A send finds room when the queue holds fewer than K messages.
HasRoom_unbounded(q) == TRUE
HasRoom(q) == Len(q) < ChannelCapacity

\* A send appends at the tail of the peer's inbound queue.
Enqueue_twice(q, m) == q \o <<m, m>>
Enqueue(q, m) == Append(q, m)

\* Receiver::is_empty().
is_empty(q) == q = <<>>

\* Receiver::recv(): the oldest message; Closed once the queue is empty and
\* the peer's endpoint is dropped; otherwise the receive blocks.
recv(q, peerClosed) ==
    IF ~is_empty(q) THEN Head(q)
    ELSE IF peerClosed THEN [type |-> "Closed"] ELSE [type |-> "Blocked"]

(***************************************************************************)
(* Preimage oracle clients (client/src/oracle.rs, common/src/oracle.rs).   *)
(***************************************************************************)
KeyTypes == {"Keccak256", "Sha256", "Blob", "Local"}
PreimageKeys == [type : KeyTypes, content : 0..(ContentSpace - 1)]
Values == 0..MaxValue
\* A 32-byte hash image: a first byte and the 31 bytes a key keeps.
ImageSpace == 2 * ContentSpace

\* The two hash functions, as fixed maps from values to images.
keccak256(value) == (3 * value + 1) % ImageSpace
sha256(value) == (value + 2) % ImageSpace

\* PreimageKey::new(image, key_type): the image's first byte gives way to the
\* type tag; the key keeps the other 31 bytes.
PreimageKey_new(image, key_type) == [type |-> key_type, content |-> image % ContentSpace]

\* validate_preimage(key, value): Ok (TRUE) or the bail (FALSE).
validate_preimage_unchecked(key, value) == TRUE
validate_preimage_blob_bound(key, value) ==
    key.content = (IF key.type = "Keccak256" THEN keccak256(value) ELSE sha256(value))
                      % ContentSpace
validate_preimage(key, value) ==
    IF key.type = "Keccak256" THEN key = PreimageKey_new(keccak256(value), key.type)
    ELSE IF key.type = "Sha256" THEN key = PreimageKey_new(sha256(value), key.type)
    ELSE TRUE

\* LruCache as a sequence of entries, the most recently used first.
cache_contains(cache, key) == \E i \in DOMAIN cache : cache[i].key = key
cache_index(cache, key) == CHOOSE i \in DOMAIN cache : cache[i].key = key
cache_without(cache, key) ==
    SelectSeq(cache, LAMBDA e : e.key # key)
\* LruCache::get: the value, or None; a hit makes the entry the most recent.
cache_get_never(cache, key) == None
cache_get(cache, key) ==
    IF cache_contains(cache, key) THEN cache[cache_index(cache, key)].value ELSE None
cache_promote(cache, key) ==
    IF cache_contains(cache, key)
    THEN <<cache[cache_index(cache, key)]>> \o cache_without(cache, key)
    ELSE cache
\* LruCache::put: insert or replace as the most recent; the least recently
\* used entry goes when the capacity is exceeded.
cache_put(cache, key, value) ==
    LET put == <<[key |-> key, value |-> value]>> \o cache_without(cache, key) IN
    IF Len(put) > LruCapacity THEN SubSeq(put, 1, LruCapacity) ELSE put

\* What the last oracle call did: the client and operation, the key, the
\* number of requests sent to the host, the host's response (None when none
\* arrived), and the result with the bytes handed to the caller.
NoCall ==
    [client |-> "none", op |-> "none", key |-> [type |-> "Local", content |-> 0],
     requests |-> 0, response |-> None, result |-> "none", value |-> None]
Call(client, op, key, requests, response, result, value) ==
    [client |-> client, op |-> op, key |-> key,
     requests |-> requests, response |-> response, result |-> result, value |-> value]
\* CachingOracle::new: an empty LRU.
NewOracle == [cache |-> <<>>, last |-> NoCall]

\* No hint written yet: the wire bytes of the hint, what the host forwarded
\* to its hint writer, its acknowledgement and the result of write.
NoHint ==
    [host |-> "none", string |-> <<>>, hint_bytes |-> <<>>, was_forwarded |-> FALSE,
     forwarded |-> <<>>, ack |-> <<>>, result |-> "none"]
\* POSIXPreimageOracleClient as prove_zkvm_client creates it: preimage is
\* None.  fetched and delivered remember the preimage of the last key written
\* and the bytes the reads have returned since; last is the last call.
NewStream ==
    [some |-> FALSE, reader |-> <<>>, fetched |-> <<>>, delivered |-> <<>>,
     last |-> [op |-> "none", result |-> "none", bytes |-> <<>>]]
\* An empty data directory: the artifacts by file name with the request each
\* was written for, the names given to the requests handled so far, and the
\* last request with the request whose artifact was read for it.
NoFiles == [artifacts |-> {}, named |-> {}, handled |-> 0, last |-> <<>>, read |-> <<>>]
\* No prove prepared yet.
NoSubmission ==
    [prepared |-> FALSE, sent |-> FALSE,
     contender |-> [io_field_elements |-> <<>>, output_root |-> 0],
     proposal |-> [io_field_elements |-> <<>>, output_root |-> 0],
     output_block_number |-> 0, claimed_l2_block_number |-> 0,
     challenge_position |-> 0,
     commitments |-> <<<<>>, <<>>>>, proofs |-> <<<<>>, <<>>>>,
     verified |-> {}, outputs |-> <<0, 0>>,
     agreed_l2_output_root |-> 0, agreed_calls |-> {},
     is_agreed_output_confirmed |-> FALSE,
     precondition_compared |-> FALSE, warnings |-> {}]
\* Treasury::init: the bond as read from the contract, the maps empty (None
\* for an address without entry); last is the last fetch.
TreasuryAddresses == {1, 2}
NewTreasury ==
    [participation_bond |-> 0,
     paid_bond |-> [a \in TreasuryAddresses |-> None],
     claim_proposer |-> [a \in TreasuryAddresses |-> None],
     elimination_round |-> [a \in TreasuryAddresses |-> None],
     last |-> [op |-> "none", address |-> 0, calls |-> 0, answer |-> None,
               result |-> "none", value |-> None]]
\* The callers sharing one CachingOracle (clones of the Arc), none of them in
\* a call, and the spin lock of the cache free (holder 0).  For the callers
\* of the stream oracle: the key the host's pending response was fetched for
\* and the key the response each caller consumed was fetched for.
Callers == 1..2
NoKey == [type |-> "None", content |-> 0]
NoTasks ==
    [lock |-> 0,
     pc |-> [c \in Callers |-> "idle"],
     key |-> [c \in Callers |-> [type |-> "Local", content |-> 0]],
     fetched_for |-> NoKey,
     response_for |-> [c \in Callers |-> NoKey]]

(***************************************************************************)
(* Initial state: validate() has created the channel pair and spawned the  *)
(* two tasks; nothing is loaded, nothing is proven.                        *)
(***************************************************************************)
NoTx == [sent |-> FALSE, warnings |-> {}]
NoMessage == [type |-> "none"]
\* What a task that ended left behind: the error it returned or the panic.
Failure(cause) == [type |-> "Failure", cause |-> cause]
NoAttempt == [made |-> FALSE, exited_ok |-> FALSE, artifact_ok |-> FALSE]

Init ==
    /\ devnet \in BOOLEAN
    /\ outputs \in [Proposals -> OutputVectors]
    /\ proofStatus = [m \in Matches |-> 0]
    /\ next_factory_index = 0
    /\ loaded_proposals = <<>>
    /\ pcW = "init"
    /\ curW = NoMessage
    /\ pcP = "init"
    /\ jobP = NoMessage
    /\ children = 0
    /\ reqQ = <<>>
    /\ repQ = <<>>
    /\ pcV = "join"
    /\ hist = [reqSent |-> <<>>, reqRcvd |-> <<>>,
               repSent |-> <<>>, repRcvd |-> <<>>,
               examined |-> <<>>, done |-> {},
               statusRead |-> [p \in Proposals |-> None],
               recheck |-> [p \in Proposals |-> None],
               proveSent |-> [p \in Proposals |-> 0],
               proveOk |-> [p \in Proposals |-> 0],
               provenBefore |-> {},
               attempt |-> NoAttempt,
               lastTx |-> NoTx]
    /\ oracle = NewOracle
    /\ hint = NoHint
    /\ stream = NewStream
    /\ files = NoFiles
    /\ submission = NoSubmission
    /\ treasury = NewTreasury
    /\ tasks = NoTasks

\* The process is alive as long as validate has not returned.
Alive == pcV = "join"


(***************************************************************************)
(* Chain-watcher: handle_proposals and request_proof.                      *)
(***************************************************************************)
\* Set-up of handle_proposals: providers, wallet, contracts, KailuaDB::init.
\* A failing step returns the error; a zero game implementation exits.
handle_proposals_init ==
    /\ Alive /\ pcW = "init"
    /\ \E outcome \in {"ok", "err", "exit"} :
          /\ pcW' = IF outcome = "ok" THEN "loop" ELSE outcome
          /\ curW' = IF outcome = "err" THEN Failure("init") ELSE curW
          /\ pcV' = IF outcome = "exit" THEN "exit" ELSE pcV
    /\ UNCHANGED <<chainVars, proofStatus, next_factory_index, loaded_proposals,
                   proverVars, reqQ, repQ, hist>>
    /\ UNCHANGED sideVars

\* KailuaDB::load_proposals: the new factory slots up to the game count k
\* it observes, in factory order.
load_proposals(k) ==
    [i \in 1..(k - next_factory_index) |-> next_factory_index + i]

\* Top of the loop: sleep, then load_proposals, whose error is returned.  With
\* nothing loaded the for loop is skipped.
handle_proposals_load ==
    /\ Alive /\ pcW = "loop"
    /\ \/ /\ pcW' = "err" /\ curW' = Failure("rpc")
          /\ UNCHANGED <<next_factory_index, loaded_proposals, hist>>
       \/ \E k \in next_factory_index..MaxProposals :
             /\ loaded_proposals' = load_proposals(k)
             /\ next_factory_index' = k
             /\ curW' = curW
             /\ pcW' = IF k = next_factory_index THEN "drain" ELSE "examine"
             /\ hist' = [hist EXCEPT
                   !.provenBefore = {m \in Matches : proofStatus[m] # 0},
                   !.lastTx = NoTx]
    /\ UNCHANGED <<chainVars, proofStatus, proverVars, reqQ, repQ, pcV>>
    /\ UNCHANGED sideVars

\* for proposal_index in loaded_proposals: the next one and the rest.
NextProposal_last(batch) == batch[Len(batch)]
NextProposal(batch) == Head(batch)
RestProposals(batch) == Tail(batch)

\* proposal.contender as the watcher reads it from the database.
proposal_contender_any(p) ==
    IF \E c \in Proposals :
          c # p /\ c <= next_factory_index /\ divergence_point(c, p) # None
    THEN CHOOSE c \in Proposals :
          c # p /\ c <= next_factory_index /\ divergence_point(c, p) # None
    ELSE None
proposal_contender(p) == contender(p)

\* "skip this proposal if it has no contender".
HasContender(p) == proposal_contender(p) # None

\* The ranks handed to proofStatus(u_index, v_index).
StatusKey(p) == <<child_index(proposal_contender(p)), child_index(p)>>

\* "Prove if unproven".
ShouldRequest_always(proof_status) == TRUE
ShouldRequest_inverted(proof_status) == proof_status # 0
ShouldRequest(proof_status) == proof_status = 0

\* request_proof: the block the agreed head is asked at.  A proposal carries
\* ProposalBlockCount - 1 io_field_elements; the challenge point is zero
\* indexed.
agreed_l2_head_number_one_based(challenge_point) ==
    OutputBlock - (ProposalBlockCount - 1) + challenge_point
agreed_l2_head_number(challenge_point) ==
    OutputBlock - (ProposalBlockCount - 1) - 1 + challenge_point

\* request_proof up to its send: the divergence point (its absence panics),
\* the block and output lookups (an RPC error is returned, a block that is
\* not found panics) and the message.
request_proof(p, rpc) ==
    LET challenge_point == divergence_point(proposal_contender(p), p) IN
    IF challenge_point = None THEN [pc |-> "panic", msg |-> Failure("no_divergence")]
    ELSE IF rpc = "not_found" THEN [pc |-> "panic", msg |-> Failure("not_found")]
    ELSE IF rpc = "err" THEN [pc |-> "err", msg |-> Failure("rpc")]
    ELSE [pc |-> "send",
          msg |-> [type |-> "Proposal", index |-> p,
                   has_precondition |-> has_precondition_for(challenge_point),
                   claimed_l2_block_number |->
                       agreed_l2_head_number(challenge_point) + 1]]

\* Where the for loop goes after a proposal: the next one, or the drain.
after_proposal(rest) == IF rest = <<>> THEN "drain" ELSE "examine"

\* One pass of the for loop over loaded_proposals, up to request_proof's send.
handle_proposals_examine ==
    /\ Alive /\ pcW = "examine" /\ loaded_proposals # <<>>
    /\ LET p == NextProposal(loaded_proposals) IN
       /\ loaded_proposals' = RestProposals(loaded_proposals)
       /\ IF ~HasContender(p)
          THEN /\ pcW' = after_proposal(loaded_proposals') /\ curW' = curW
               /\ hist' = [hist EXCEPT !.examined = Append(@, p),
                                       !.done = @ \cup {p}]
          ELSE LET proof_status == proofStatus[StatusKey(p)] IN
               IF ~ShouldRequest(proof_status)
               THEN /\ pcW' = after_proposal(loaded_proposals') /\ curW' = curW
                    /\ hist' = [hist EXCEPT !.examined = Append(@, p),
                                            !.done = @ \cup {p},
                                            !.statusRead[p] = OnChainStatus(p)]
               ELSE \E rpc \in {"ok", "err", "not_found"} :
                       LET r == request_proof(p, rpc) IN
                       /\ pcW' = r.pc /\ curW' = r.msg
                       /\ hist' = [hist EXCEPT !.examined = Append(@, p),
                                               !.statusRead[p] = OnChainStatus(p)]
    /\ UNCHANGED <<chainVars, proofStatus, next_factory_index, proverVars,
                   reqQ, repQ, pcV>>
    /\ UNCHANGED sideVars

\* request_proof: channel.sender.send(Message::Proposal{..}).await?  The send
\* fails when the prover-driver's endpoint is gone and waits while the queue
\* is full.
request_proof_send ==
    /\ Alive /\ pcW = "send"
    /\ IF pcP \in Ended
       THEN /\ pcW' = "err" /\ curW' = Failure("channel")
            /\ UNCHANGED <<reqQ, hist>>
       ELSE /\ HasRoom(reqQ)
            /\ reqQ' = Enqueue(reqQ, curW)
            /\ pcW' = after_proposal(loaded_proposals) /\ curW' = NoMessage
            /\ hist' = [hist EXCEPT !.reqSent = Append(@, curW.index),
                                    !.done = @ \cup {curW.index}]
    /\ UNCHANGED <<chainVars, proofStatus, next_factory_index, loaded_proposals,
                   proverVars, repQ, pcV>>
    /\ UNCHANGED sideVars


\* challenge_position = claimed_l2_block_number - parent.output_block_number - 1
\* in u64: at or below the parent's block the subtraction overflows (a panic
\* when overflow is checked, a huge position otherwise); None stands for both.
challenge_position(claimed_l2_block_number) ==
    IF claimed_l2_block_number - AnchorBlock - 1 < 0 THEN None
    ELSE claimed_l2_block_number - AnchorBlock - 1

\* receipt.verify(expected_image_id): a fake receipt verifies in dev mode only.
receipt_verifies(kind) ==
    kind = "groth16_valid" \/ (kind \in {"fake", "fake_pruned"} /\ devnet)

\* "only prove unproven games".
SkipSubmission_never(proof_status) == FALSE
SkipSubmission(proof_status) == proof_status # 0

\* What ends handle_proposals between the recv of a reply and the re-read of
\* proofStatus, in the order of the code; "none" when nothing does.  journal
\* is the journal's claimed_l2_block_number, None for one that does not decode.
receive_failure(m, kind, journal, overflow_checks, rpc_ok) ==
    IF m.type = "Closed" THEN "channel"
    ELSE IF m.type # "Proof" THEN "message"
    ELSE IF journal = None THEN "journal_decode"
    ELSE IF contender(m.index) = None THEN "no_contender"
    ELSE IF challenge_position(journal) = None /\ overflow_checks THEN "journal_block"
    ELSE IF devnet /\ kind \notin {"fake", "fake_pruned"} THEN "receipt"
    ELSE IF devnet /\ kind = "fake_pruned" THEN "receipt"
    ELSE IF challenge_position(journal) \notin Positions THEN "journal_block"
    ELSE IF ~rpc_ok THEN "rpc"
    ELSE "none"

\* A Proof reply from its recv to the re-read of proofStatus: "err" when
\* handle_proposals returns an error, "panic" for an unwrap, an expect or an
\* index out of range, "skip" for the continue, "submit" to go on.
receive_proof(m, kind, journal, overflow_checks, rpc_ok) ==
    LET failure == receive_failure(m, kind, journal, overflow_checks, rpc_ok) IN
    IF failure \in {"no_contender", "journal_block"} THEN "panic"
    ELSE IF failure # "none" THEN "err"
    ELSE IF SkipSubmission(proofStatus[MatchOf(m.index)]) THEN "skip"
    ELSE "submit"

\* The body of the drain loop from recv to the re-read of proofStatus.  The
\* receipt is the content of the prover's artifact: its inner form and its
\* journal are read here for the first time.
handle_proposals_receive ==
    /\ Alive /\ pcW = "drain" /\ ~is_empty(repQ)
    /\ LET m == recv(repQ, pcP \in Ended) IN
       /\ repQ' = Tail(repQ)
       /\ \E kind \in ReceiptKinds, journal \in JournalBlocks \cup {None},
             overflow_checks \in BOOLEAN, rpc_ok \in BOOLEAN :
             LET r == receive_proof(m, kind, journal, overflow_checks, rpc_ok) IN
             /\ pcW' = IF r = "skip" THEN "drain" ELSE r
             /\ curW' = IF r = "submit"
                        THEN [type |-> "Proof", index |-> m.index, kind |-> kind,
                              claimed_l2_block_number |-> journal]
                        ELSE IF r \in Ended
                        THEN Failure(receive_failure(m, kind, journal,
                                                     overflow_checks, rpc_ok))
                        ELSE NoMessage
             /\ hist' = [hist EXCEPT
                   !.repRcvd = Append(@, m.index),
                   !.recheck[m.index] =
                       IF r \in {"skip", "submit"}
                       THEN proofStatus[MatchOf(m.index)] ELSE @,
                   !.lastTx = NoTx]
    /\ UNCHANGED <<chainVars, proofStatus, next_factory_index, loaded_proposals,
                   proverVars, reqQ, pcV>>
    /\ UNCHANGED sideVars

\* while !channel.receiver.is_empty(): with nothing queued the drain ends and
\* the loop starts over; the receive is not reached.
handle_proposals_drained ==
    /\ Alive /\ pcW = "drain" /\ is_empty(repQ)
    /\ pcW' = "loop"
    /\ UNCHANGED <<chainVars, proofStatus, next_factory_index, loaded_proposals,
                   curW, proverVars, reqQ, repQ, pcV, hist>>
    /\ UNCHANGED sideVars

\* The KZG openings pushed per side: a lower one (position - 1) and an upper
\* one (position).
has_lower_opening_from_one(pos) == pos > 1
has_lower_opening(pos) == pos > 0
\* The claimed block lies before the proposal's last block.
is_intermediate(claimed_l2_block_number, output_block_number) ==
    claimed_l2_block_number < output_block_number
has_upper_opening(claimed_l2_block_number) ==
    is_intermediate(claimed_l2_block_number, OutputBlock)
openings(pos, claimed_l2_block_number) ==
    (IF has_lower_opening(pos) THEN 1 ELSE 0)
    + (IF has_upper_opening(claimed_l2_block_number) THEN 1 ELSE 0)

\* The cross-checks of a reply, each of which only logs: the receipt against
\* the image id, and the journal and the siblings' outputs against the chain
\* ("config_hash"; "other" for the outputs, the op-node's output, the KZG
\* checks, the agreed root, the precondition hash, l1_head, the block number).
CrossChecks == {"receipt", "config_hash", "other"}
warnings_of(kind, mismatches) ==
    (IF receipt_verifies(kind) THEN {} ELSE {"receipt"}) \cup mismatches

\* No mismatch leaves the loop body before the prove transaction.
AbortsSubmission_on_config_hash(warnings) == "config_hash" \in warnings
AbortsSubmission(warnings) == FALSE

\* encode_seal, the KZG openings and the unwraps before prove: "err" for a
\* returned error, "panic" for an unwrap of nothing, "prove" to go on.
prepare_proof(kind, pos, claimed, kzg_ok) ==
    IF kind \notin {"groth16_valid", "groth16_invalid", "fake", "fake_pruned"} THEN "err"
    ELSE IF openings(pos, claimed) > 0 /\ ~kzg_ok THEN "err"
    ELSE IF claimed # OutputBlock /\ openings(pos, claimed) = 0 THEN "panic"
    ELSE "prove"

\* The tournament contract accepts a prove for an unproven match whose seal
\* its verifier accepts.
contract_accepts(m, kind) == proofStatus[m] = 0 /\ receipt_verifies(kind)

\* prove(..).send() and get_receipt(): the send fails, the confirmation fails
\* (the transaction may still be mined), or the transaction is mined.
TxnOutcomes == {"send_err", "receipt_err", "receipt_err_mined", "mined"}

\* Both failures of the submission are logged in their match arms; the loop
\* body ends and the drain goes on.
after_prove_propagated(txn) == IF txn \in {"send_err", "receipt_err"} THEN "err" ELSE "drain"
after_prove(txn) == "drain"

\* The body of the drain loop after the re-read of proofStatus: the seal, the
\* openings, the cross-checks and the prove transaction.
handle_proposals_prove ==
    /\ Alive /\ pcW = "submit"
    /\ LET p == curW.index
           claimed == curW.claimed_l2_block_number
           pos == challenge_position(claimed)
       IN
       \E kzg_ok \in BOOLEAN, mismatches \in SUBSET (CrossChecks \ {"receipt"}),
          txn \in TxnOutcomes :
          LET r == prepare_proof(curW.kind, pos, claimed, kzg_ok)
              warnings == warnings_of(curW.kind, mismatches)
              mined == txn \in {"mined", "receipt_err_mined"}
          IN
          IF r # "prove"
          THEN /\ pcW' = r /\ curW' = Failure("proof_data")
               /\ UNCHANGED <<proofStatus, hist>>
          ELSE IF AbortsSubmission(warnings)
          THEN /\ pcW' = "drain" /\ curW' = NoMessage
               /\ UNCHANGED <<proofStatus, hist>>
          ELSE /\ mined => contract_accepts(MatchOf(p), curW.kind)
               /\ pcW' = after_prove(txn)
               /\ curW' = IF after_prove(txn) \in Ended
                          THEN Failure("prove") ELSE NoMessage
               /\ proofStatus' = IF mined
                                 THEN [proofStatus EXCEPT ![MatchOf(p)] = 1]
                                 ELSE proofStatus
               /\ hist' = [hist EXCEPT
                     !.proveSent[p] = @ + 1,
                     !.proveOk[p] = IF mined THEN @ + 1 ELSE @,
                     !.lastTx = [sent |-> TRUE, warnings |-> warnings]]
    /\ UNCHANGED <<chainVars, next_factory_index, loaded_proposals,
                   proverVars, reqQ, repQ, pcV>>
    /\ UNCHANGED sideVars

(***************************************************************************)
(* Prover-driver: handle_proofs.                                           *)
(***************************************************************************)
\* fetch_rollup_config(..).await?
handle_proofs_init ==
    /\ Alive /\ pcP = "init"
    /\ \E ok \in BOOLEAN : pcP' = IF ok THEN "recv" ELSE "err"
    /\ UNCHANGED <<chainVars, proofStatus, watcherVars, jobP, children, reqQ, repQ,
                   pcV, hist>>
    /\ UNCHANGED sideVars

\* Dequeue a message (Closed and a message of the wrong variant are errors),
\* build the arguments (data_dir.to_str().unwrap() may panic) and spawn
\* kailua-host (a failing spawn is returned).
handle_proofs_recv ==
    /\ Alive /\ pcP = "recv"
    /\ LET m == recv(reqQ, pcW \in Ended) IN
       /\ m.type # "Blocked"
       /\ IF m.type = "Proposal"
          THEN /\ \E outcome \in {"wait", "err", "panic"} :
                     /\ pcP' = outcome
                     /\ jobP' = IF outcome = "wait" THEN m ELSE NoMessage
                     /\ children' = IF outcome = "wait" THEN children + 1
                                    ELSE children
               /\ reqQ' = Tail(reqQ)
               /\ hist' = [hist EXCEPT !.reqRcvd = Append(@, m.index),
                                       !.attempt = NoAttempt]
          ELSE /\ pcP' = "err" /\ jobP' = NoMessage
               /\ children' = children
               /\ reqQ' = IF m.type = "Closed" THEN reqQ ELSE Tail(reqQ)
               /\ hist' = [hist EXCEPT !.attempt = NoAttempt]
    /\ UNCHANGED <<chainVars, proofStatus, watcherVars, repQ, pcV>>
    /\ UNCHANGED sideVars

\* How the subprocess ended: wait() gives a zero or a non-zero status, or
\* fails.  Each case is logged and nothing else.
ExitStatuses == {"success", "failure", "wait_err"}
\* The artifact on disk after the subprocess: File::open fails, read_to_end
\* fails, the bytes are no Receipt, or they are one.
ArtifactFiles == {"missing", "unreadable", "garbage", "receipt"}

\* After the subprocess: whatever its exit, the artifact file is opened, read
\* and deserialized; only a Receipt leads to a send.
artifact_read_or_fail(exit, file) == IF file = "receipt" THEN "send" ELSE "err"
artifact_read(exit, file) == IF file = "receipt" THEN "send" ELSE "recv"

\* The reply to a request: Message::Proof(proposal_index, receipt).
Message_Proof_as_Proposal(index) == [type |-> "Proposal", index |-> index]
Message_Proof(index) == [type |-> "Proof", index |-> index]

\* Command::kill_on_drop(true): dropping the Child handle of a subprocess
\* that still runs kills it.
kill_on_drop_unset == FALSE
kill_on_drop == TRUE
\* The live subprocesses after the Child handles of all of them are dropped.
Child_drop(running) == IF kill_on_drop THEN 0 ELSE running

\* wait() for the subprocess, sleep, then read the artifact.  The Child is a
\* temporary of the match: when wait() returns it has exited, and when wait()
\* fails it is dropped with the match.
handle_proofs_wait ==
    /\ Alive /\ pcP = "wait"
    /\ \E exit \in ExitStatuses, file \in ArtifactFiles :
          /\ pcP' = artifact_read(exit, file)
          /\ children' = IF exit = "wait_err" THEN Child_drop(children)
                         ELSE children - 1
          /\ jobP' = IF artifact_read(exit, file) = "send"
                     THEN Message_Proof(jobP.index)
                     ELSE NoMessage
          /\ hist' = [hist EXCEPT !.attempt =
                          [made |-> TRUE, exited_ok |-> exit = "success",
                           artifact_ok |-> file = "receipt"]]
    /\ UNCHANGED <<chainVars, proofStatus, watcherVars, reqQ, repQ, pcV>>
    /\ UNCHANGED sideVars

\* channel.sender.send(Message::Proof(..)).await?
handle_proofs_send ==
    /\ Alive /\ pcP = "send"
    /\ IF pcW \in Ended
       THEN /\ pcP' = "err" /\ jobP' = NoMessage
            /\ UNCHANGED <<repQ, hist>>
       ELSE /\ HasRoom(repQ)
            /\ repQ' = Enqueue(repQ, jobP)
            /\ pcP' = "recv" /\ jobP' = NoMessage
            /\ hist' = [hist EXCEPT !.repSent = Append(@, jobP.index),
                                    !.attempt = NoAttempt]
    /\ UNCHANGED <<chainVars, proofStatus, watcherVars, children, reqQ, pcV>>
    /\ UNCHANGED sideVars

(***************************************************************************)
(* validate: try_join! of the two join handles.                            *)
(***************************************************************************)
\* try_join! returns at once when a handle yields a JoinError (the task
\* panicked) and otherwise when both tasks have returned.
try_join_ready == pcW = "panic" \/ pcP = "panic" \/ (pcW \in Ended /\ pcP \in Ended)

\* When validate returns the runtime shuts down and drops the tasks at their
\* await points: a handle_proofs in wait().await drops its Child.
validate_join ==
    /\ Alive /\ try_join_ready
    /\ pcV' = IF pcW = "panic" \/ pcP = "panic" THEN "join_error"
              ELSE IF pcW = "err" THEN "handle_proposals_error"
              ELSE "handle_proofs_error"
    /\ children' = Child_drop(children)
    /\ UNCHANGED <<chainVars, proofStatus, watcherVars, pcP, jobP, reqQ, repQ, hist>>
    /\ UNCHANGED sideVars

(***************************************************************************)
(* Environment: another party proves a match on chain.                     *)
(***************************************************************************)
external_prove ==
    /\ Alive
    /\ \E p \in Proposals :
          /\ contender(p) # None
          /\ proofStatus[MatchOf(p)] = 0
          /\ proofStatus' = [proofStatus EXCEPT ![MatchOf(p)] = 1]
    /\ UNCHANGED <<chainVars, watcherVars, proverVars, reqQ, repQ, pcV, hist>>
    /\ UNCHANGED sideVars

Next ==
    \/ handle_proposals_init
    \/ handle_proposals_load
    \/ handle_proposals_examine
    \/ request_proof_send
    \/ handle_proposals_receive
    \/ handle_proposals_drained
    \/ handle_proposals_prove
    \/ handle_proofs_init
    \/ handle_proofs_recv
    \/ handle_proofs_wait
    \/ handle_proofs_send
    \/ validate_join
    \/ external_prove

Spec == Init /\ [][Next]_vars

\* The executor runs a spawned task that can take a step, and validate's
\* try_join! when it is ready.  What the chain does is not scheduled.
handle_proposals_step ==
    \/ handle_proposals_init
    \/ handle_proposals_load
    \/ handle_proposals_examine
    \/ request_proof_send
    \/ handle_proposals_receive
    \/ handle_proposals_drained
    \/ handle_proposals_prove
handle_proofs_step ==
    \/ handle_proofs_init
    \/ handle_proofs_recv
    \/ handle_proofs_wait
    \/ handle_proofs_send

FairSpec ==
    /\ Spec
    /\ WF_vars(handle_proposals_step)
    /\ WF_vars(handle_proofs_step)
    /\ WF_vars(validate_join)

(***************************************************************************)
(* The oracle clients in the guest.  The host answers a request with any   *)
(* bytes, or the transport fails; for get_exact the answer may differ in   *)
(* length from the caller's buffer.                                        *)
(***************************************************************************)
HostResponses == Values \cup {None}

\* CachingOracle::get: the LRU first; on a miss ORACLE_READER.get(key).await?
\* and put.
CachingOracle_get ==
    /\ \E key \in PreimageKeys, response \in HostResponses :
           LET cached == cache_get(oracle.cache, key) IN
           IF cached # None
           THEN oracle' = [cache |-> cache_promote(oracle.cache, key),
                           last |-> Call("caching", "get", key, 0, None, "ok", cached)]
           ELSE IF response = None
           THEN oracle' = [cache |-> oracle.cache,
                           last |-> Call("caching", "get", key, 1, None, "err", None)]
           ELSE oracle' = [cache |-> cache_put(oracle.cache, key, response),
                           last |-> Call("caching", "get", key, 1, response, "ok", response)]
    /\ UNCHANGED <<coreVars, hint, stream, files, submission, treasury, tasks>>

\* CachingOracle::get_exact: on a hit copy_from_slice panics unless the buffer
\* has the cached value's length; on a miss ORACLE_READER.get_exact(key, buf)
\* fails on a transport error or a length other than the buffer's.
CachingOracle_get_exact ==
    /\ \E key \in PreimageKeys, response \in HostResponses, len_ok \in BOOLEAN :
           LET cached == cache_get(oracle.cache, key) IN
           IF cached # None
           THEN oracle' = [cache |-> cache_promote(oracle.cache, key),
                           last |-> IF len_ok
                                    THEN Call("caching", "get_exact", key, 0, None, "ok", cached)
                                    ELSE Call("caching", "get_exact", key, 0, None, "panic", None)]
           ELSE IF response = None \/ ~len_ok
           THEN oracle' = [cache |-> oracle.cache,
                           last |-> Call("caching", "get_exact", key, 1, response, "err", None)]
           ELSE oracle' = [cache |-> cache_put(oracle.cache, key, response),
                           last |-> Call("caching", "get_exact", key, 1, response, "ok", response)]
    /\ UNCHANGED <<coreVars, hint, stream, files, submission, treasury, tasks>>

\* RISCZeroPOSIXOracle::get: write the key, read_to_end, validate_preimage.
RISCZeroPOSIXOracle_get ==
    /\ \E key \in PreimageKeys, response \in HostResponses :
           oracle' = [oracle EXCEPT !.last =
               IF response = None THEN Call("posix", "get", key, 1, None, "err", None)
               ELSE IF ~validate_preimage(key, response)
               THEN Call("posix", "get", key, 1, response, "err", None)
               ELSE Call("posix", "get", key, 1, response, "ok", response)]
    /\ UNCHANGED <<coreVars, hint, stream, files, submission, treasury, tasks>>

\* RISCZeroPOSIXOracle::get_exact: write the key, read_exact(buf) (which fails
\* on a short answer), validate_preimage; buf holds what was read.
RISCZeroPOSIXOracle_get_exact ==
    /\ \E key \in PreimageKeys, response \in HostResponses, len_ok \in BOOLEAN :
           oracle' = [oracle EXCEPT !.last =
               IF response = None \/ ~len_ok
               THEN Call("posix", "get_exact", key, 1, response, "err", None)
               ELSE IF ~validate_preimage(key, response)
               THEN Call("posix", "get_exact", key, 1, response, "err", response)
               ELSE Call("posix", "get_exact", key, 1, response, "ok", response)]
    /\ UNCHANGED <<coreVars, hint, stream, files, submission, treasury, tasks>>

\* RISCZeroOracle::get: send_slice_recv_vec (a syscall, which always answers),
\* validate_preimage.
RISCZeroOracle_get ==
    /\ \E key \in PreimageKeys, response \in Values :
           oracle' = [oracle EXCEPT !.last =
               IF ~validate_preimage(key, response)
               THEN Call("syscall", "get", key, 1, response, "err", None)
               ELSE Call("syscall", "get", key, 1, response, "ok", response)]
    /\ UNCHANGED <<coreVars, hint, stream, files, submission, treasury, tasks>>

\* RISCZeroOracle::get_exact: the answer is copied into buf (a panic on a
\* length other than the buffer's) before validate_preimage.
RISCZeroOracle_get_exact ==
    /\ \E key \in PreimageKeys, response \in Values, len_ok \in BOOLEAN :
           oracle' = [oracle EXCEPT !.last =
               IF ~len_ok THEN Call("syscall", "get_exact", key, 1, response, "panic", None)
               ELSE IF ~validate_preimage(key, response)
               THEN Call("syscall", "get_exact", key, 1, response, "err", response)
               ELSE Call("syscall", "get_exact", key, 1, response, "ok", response)]
    /\ UNCHANGED <<coreVars, hint, stream, files, submission, treasury, tasks>>

CachingOracleNext ==
    \/ CachingOracle_get
    \/ CachingOracle_get_exact

RISCZeroOracleNext ==
    \/ RISCZeroPOSIXOracle_get
    \/ RISCZeroPOSIXOracle_get_exact
    \/ RISCZeroOracle_get
    \/ RISCZeroOracle_get_exact

\* The guest alone: the validator's tasks stay as created.
OracleInit ==
    /\ Init
    /\ ~devnet
    /\ outputs = [p \in Proposals |-> [pos \in Positions |-> 0]]

CachingOracleSpec == OracleInit /\ [][CachingOracleNext]_vars
RISCZeroOracleSpec == OracleInit /\ [][RISCZeroOracleNext]_vars

(***************************************************************************)
(* Properties.                                                             *)
(***************************************************************************)
Range(seq) == {seq[i] : i \in DOMAIN seq}
Indices(q) == [i \in DOMAIN q |-> q[i].index]
IsPrefix(a, b) == Len(a) <= Len(b) /\ SubSeq(b, 1, Len(a)) = a
Increasing(seq) == \A i, j \in DOMAIN seq : i < j => seq[i] < seq[j]

\* C1: for every examined proposal that has a contender, the watcher has read
\* proofStatus(u, v) of the match of the contender's and the proposal's ranks,
\* and a Proposal request for it was sent if and only if that status was 0.
C1_RequestIffUnproven ==
    \A p \in hist.done :
        contender(p) # None =>
            /\ hist.statusRead[p] # None
            /\ (p \in Range(hist.reqSent)) <=> (hist.statusRead[p] = 0)

\* C1 happens: one contested proposal was requested on status 0 and another
\* was passed over on a nonzero status.
C1_Witness ==
    \E p, q \in hist.done :
        /\ contender(p) # None /\ hist.statusRead[p] = 0 /\ p \in Range(hist.reqSent)
        /\ contender(q) # None /\ hist.statusRead[q] = 1 /\ q \notin Range(hist.reqSent)

\* C2: a proposal without contender never causes a request: every Proposal
\* message built, queued or sent carries the index of a proposal that has a
\* contender.
C2_NoRequestWithoutContender ==
    /\ \A p \in Range(hist.reqSent) : contender(p) # None
    /\ \A i \in DOMAIN reqQ : contender(reqQ[i].index) # None
    /\ pcW = "send" => contender(curW.index) # None

\* C2 happens: a later sibling that agrees with the first child on all outputs
\* was examined, and so was a contested one, which was requested.
C2_Witness ==
    \E p, q \in hist.done :
        /\ p > 1 /\ contender(p) = None
        /\ q \in Range(hist.reqSent)

\* C3: a prove transaction is sent for a reply only after the re-read of
\* proofStatus(u, v) returned 0 for it, and a match gets at most one successful
\* prove from this validator.
C3_ProveOnlyAfterZeroRecheck ==
    /\ pcW = "submit" => hist.recheck[curW.index] = 0
    /\ \A p \in Proposals :
          /\ hist.proveSent[p] > 0 => hist.recheck[p] = 0
          /\ hist.proveOk[p] <= 1
          /\ hist.proveOk[p] = 1 => proofStatus[MatchOf(p)] # 0

\* C3 happens: one reply was skipped on a nonzero re-read and another led to
\* a successful prove.
C3_Witness ==
    \E p, q \in Proposals :
        /\ hist.recheck[p] = 1 /\ hist.proveSent[p] = 0 /\ p \in Range(hist.repRcvd)
        /\ hist.recheck[q] = 0 /\ hist.proveOk[q] = 1

\* C4: no request is sent for a match that was proven when the current loop
\* iteration started, nor for one this validator has proven, and no proposal
\* is requested twice.
C4_NoRequestOnceProven ==
    /\ pcW = "send" =>
          /\ MatchOf(curW.index) \notin hist.provenBefore
          /\ hist.proveOk[curW.index] = 0
    /\ \A i, j \in DOMAIN hist.reqSent :
          i # j => hist.reqSent[i] # hist.reqSent[j]

\* C4 happens: this validator's prove for a match succeeded, a later loop
\* iteration started and examined another contested proposal.
C4_Witness ==
    \E p, q \in Proposals :
        /\ hist.proveOk[p] = 1 /\ MatchOf(p) \in hist.provenBefore
        /\ q > p /\ q \in hist.done /\ contender(q) # None

\* C5: a reply that passed the re-check and whose seal and openings could be
\* built leaves the loop body only with its prove transaction sent, once,
\* whatever cross-checks mismatched.
C5_MismatchesOnlyLogged ==
    [][(pcW = "submit" /\ pcW' = "drain") =>
          /\ hist'.proveSent[curW.index] = hist.proveSent[curW.index] + 1
          /\ hist'.lastTx.sent]_vars

\* C5 happens: a prove was sent for a journal whose receipt verifies and
\* whose config_hash mismatches.
C5_Witness ==
    /\ hist.lastTx.sent
    /\ "config_hash" \in hist.lastTx.warnings
    /\ "receipt" \notin hist.lastTx.warnings

\* C6: in production mode no prove transaction carries a receipt that fails
\* to verify against the image id.
C6_ProductionRejectsUnverified ==
    ~devnet => ~(hist.lastTx.sent /\ "receipt" \in hist.lastTx.warnings)

\* C7: once a task has finished with an error, validate eventually returns.
C7_ErrorEventuallyReturned ==
    (pcW = "err" \/ pcP = "err") ~> (pcV # "join")

\* C8: with the peer's endpoint closed and nothing queued, a task that leaves
\* its receive leaves it with the channel-closed error.
C8_ClosedObserved ==
    [][/\ (pcW \in Ended /\ pcP = "recv" /\ is_empty(reqQ) /\ pcP' # pcP)
            => pcP' = "err"
       /\ (pcP \in Ended /\ pcW = "drain" /\ is_empty(repQ) /\ pcW' # pcW)
            => pcW' = "err"]_vars

C10_InOrder ==
    /\ \A i \in DOMAIN hist.examined : hist.examined[i] = i
    /\ Increasing(hist.reqSent)
    /\ Range(hist.reqSent) \subseteq Range(hist.examined)
    /\ IsPrefix(hist.repRcvd, hist.repSent)

\* C10 happens: a batch of several proposals was examined, two requests were
\* sent and two replies were processed.
C10_Witness ==
    /\ Len(hist.examined) >= 3
    /\ Len(hist.reqSent) >= 2
    /\ Len(hist.repRcvd) >= 2

Last(seq) == seq[Len(seq)]
Occurrences(seq, x) == Cardinality({i \in DOMAIN seq : seq[i] = x})
\* The driver's last proving attempt was for p and produced no Proof.
AttemptFailed(p) ==
    /\ hist.attempt.made /\ ~hist.attempt.artifact_ok
    /\ hist.reqRcvd # <<>> /\ Last(hist.reqRcvd) = p

\* C11: after a subprocess that exited non-zero, or whose wait failed, no
\* Proof is sent for that request.
C11_FailedExitSendsNothing ==
    [][(hist.attempt.made /\ ~hist.attempt.exited_ok)
          => hist'.repSent = hist.repSent]_vars

\* C12: after a subprocess that exited with 0 and left no artifact that opens,
\* reads and deserializes, the driver is back at awaiting the next Proposal,
\* has not ended, and no Proof for that request was sent.
C12_NoArtifactNoMessage ==
    (hist.attempt.made /\ hist.attempt.exited_ok /\ ~hist.attempt.artifact_ok) =>
        /\ pcP = "recv" /\ jobP = NoMessage
        /\ Last(hist.reqRcvd) \notin Range(hist.repSent)
        /\ \A i \in DOMAIN repQ : repQ[i].index # Last(hist.reqRcvd)

\* C12 happens: the subprocess exited with 0, the artifact was unusable, and
\* the driver awaits the next Proposal.
C12_Witness ==
    /\ hist.attempt.made /\ hist.attempt.exited_ok /\ ~hist.attempt.artifact_ok
    /\ pcP = "recv"

\* C13: a failed proving attempt for a match is eventually followed by
\* another attempt for the same match, unless the match gets proven or the
\* validator ends.
C13_FailedAttemptRetried ==
    \A p \in Proposals :
        (AttemptFailed(p) /\ OnChainStatus(p) = 0)
            ~> \/ Occurrences(hist.reqRcvd, p) >= 2
               \/ OnChainStatus(p) # 0
               \/ ~Alive

\* C14: the watcher never ends on an RPC failure.
C14_RpcFailureKeepsRunning ==
    ~(pcW = "err" /\ curW.type = "Failure" /\ curW.cause = "rpc")

\* C15: the watcher never ends, by error or panic, on the journal of a reply:
\* neither on one that does not decode nor on one whose claimed block is
\* outside the proposal's blocks.
C15_JournalNeverAborts ==
    ~(/\ pcW \in Ended /\ curW.type = "Failure"
      /\ curW.cause \in {"journal_decode", "journal_block"})

\* C16: a prove transaction that was attempted, whatever became of it, leaves
\* the watcher in the drain with that one attempt counted and the pending
\* replies untouched.
C16_SubmissionFailureLogged ==
    [][(pcW = "submit" /\ hist'.proveSent # hist.proveSent) =>
          /\ pcW' = "drain"
          /\ hist'.proveSent[curW.index] = hist.proveSent[curW.index] + 1
          /\ repQ' = repQ]_vars

\* C16 happens: the prove for the first reply failed to be sent or confirmed,
\* the match is still unproven, and the watcher has gone on to a later reply.
C16_Witness ==
    /\ pcW \notin Ended
    /\ Len(hist.repRcvd) >= 2
    /\ LET p == hist.repRcvd[1] IN
          /\ hist.proveSent[p] = 1 /\ hist.proveOk[p] = 0
          /\ OnChainStatus(p) = 0

\* The content binding of a key: for a Keccak256 or Sha256 key the content
\* portion is that of the value's hash.
ContentBound(key, value) ==
    /\ key.type = "Keccak256" => key.content = keccak256(value) % ContentSpace
    /\ key.type = "Sha256" => key.content = sha256(value) % ContentSpace
CachedValue(cache, key) == cache[CHOOSE i \in DOMAIN cache : cache[i].key = key].value

\* C17: every entry of the CachingOracle's LRU satisfies validate_preimage.
C17_CacheHoldsValidPreimages ==
    \A i \in DOMAIN oracle.cache :
        validate_preimage(oracle.cache[i].key, oracle.cache[i].value)

\* C18: a get of a cached key sends nothing to the host and returns the
\* cached bytes, which stay cached; a get of a key that is not cached sends
\* one request and, when it succeeds, caches what it returns.
C18_LruConsultedFirst ==
    [][LET call == oracle'.last IN
       (call.client = "caching" /\ call.op = "get") =>
          IF cache_contains(oracle.cache, call.key)
          THEN /\ call.requests = 0 /\ call.result = "ok"
               /\ call.value = CachedValue(oracle.cache, call.key)
               /\ cache_contains(oracle'.cache, call.key)
               /\ CachedValue(oracle'.cache, call.key) = call.value
          ELSE /\ call.requests = 1
               /\ call.result = "ok" =>
                     /\ call.value = call.response
                     /\ cache_contains(oracle'.cache, call.key)
                     /\ CachedValue(oracle'.cache, call.key) = call.value]_vars

\* C18 happens: with the LRU full, a get was served from it without a request.
C18_Witness ==
    /\ oracle.last.client = "caching" /\ oracle.last.op = "get"
    /\ oracle.last.requests = 0 /\ oracle.last.result = "ok"
    /\ Len(oracle.cache) = LruCapacity

\* C19: a CachingOracle call that missed and whose fetch failed, or fetched
\* bytes the key does not bind, returns an error and leaves the LRU as it was.
C19_FailedFetchLeavesLru ==
    [][LET call == oracle'.last IN
       (/\ call.client = "caching" /\ call.requests = 1
        /\ (call.response = None \/ ~ContentBound(call.key, call.response)))
          => (call.result = "err" /\ oracle'.cache = oracle.cache)]_vars

\* C20: the syscall and the stream client return Ok only with the bytes the
\* host sent and only when the key binds them; bytes that a Keccak256 or
\* Sha256 key does not bind never give Ok.
C20_OkOnlyWhenValidated ==
    oracle.last.client \in {"syscall", "posix"} =>
        /\ oracle.last.result = "ok" =>
              /\ oracle.last.response # None
              /\ oracle.last.value = oracle.last.response
              /\ ContentBound(oracle.last.key, oracle.last.value)
        /\ (oracle.last.response # None
            /\ ~ContentBound(oracle.last.key, oracle.last.response))
              => oracle.last.result # "ok"

\* C20 happens: the host answered a Keccak256 key with bytes of another hash
\* and the call returned an error.
C20_Witness ==
    /\ oracle.last.client \in {"syscall", "posix"}
    /\ oracle.last.key.type = "Keccak256"
    /\ oracle.last.response # None
    /\ ~ContentBound(oracle.last.key, oracle.last.response)
    /\ oracle.last.result = "err"

\* C21: validate_preimage accepts a value for a Keccak256 key exactly when the
\* key is the Keccak256 key of keccak256(value), for a Sha256 key exactly when
\* it is the Sha256 key of sha256(value), and for a Blob key and every other
\* key type always.  Seen at the get of the syscall and the stream client,
\* which return Ok exactly when validate_preimage accepts the host's bytes.
C21_ValidatePreimageAccepts ==
    LET call == oracle.last IN
    (call.client \in {"syscall", "posix"} /\ call.op = "get" /\ call.response # None) =>
        ((call.result = "ok") <=>
            CASE call.key.type = "Keccak256" ->
                    call.key = [type |-> "Keccak256",
                                content |-> keccak256(call.response) % ContentSpace]
              [] call.key.type = "Sha256" ->
                    call.key = [type |-> "Sha256",
                                content |-> sha256(call.response) % ContentSpace]
              [] OTHER -> TRUE)

\* C21 happens: a Blob key was accepted with bytes whose Keccak hash is not
\* the key's content.
C21_Witness ==
    /\ oracle.last.client = "syscall" /\ oracle.last.op = "get"
    /\ oracle.last.key.type = "Blob"
    /\ oracle.last.key.content # keccak256(oracle.last.response) % ContentSpace
    /\ oracle.last.result = "ok"

(***************************************************************************)
(* Hints: RISCZeroOracle::write in the guest and the FPVM_WRITE_HINT        *)
(* callback of prove_zkvm_client in the host.                              *)
(***************************************************************************)
\* Longest hint of the model, in bytes.
MaxHintLen == 3
\* The characters of a hint string, each as its UTF-8 bytes: "A" and the
\* two-byte U+00E9.
HintChars == {<<65>>, <<195, 169>>}
RECURSIVE SeqsUpTo(_, _)
SeqsUpTo(S, n) ==
    IF n = 0 THEN {<<>>}
    ELSE LET shorter == SeqsUpTo(S, n - 1) IN
         shorter \cup {Append(q, x) : q \in {r \in shorter : Len(r) = n - 1}, x \in S}
\* str::as_bytes: the UTF-8 bytes of the characters, in order.
RECURSIVE as_bytes(_)
as_bytes(chars) == IF chars = <<>> THEN <<>> ELSE Head(chars) \o as_bytes(Tail(chars))
\* A hint is a &str, given by its bytes; len() counts bytes.
Hints == {as_bytes(chars) : chars \in SeqsUpTo(HintChars, MaxHintLen)}

\* u32::to_be_bytes(n as u32).
to_le_bytes(n) ==
    <<n % 256, (n \div 256) % 256, (n \div 65536) % 256, (n \div 16777216) % 256>>
to_be_bytes(n) ==
    <<(n \div 16777216) % 256, (n \div 65536) % 256, (n \div 256) % 256, n % 256>>
\* The hint on the wire: a 4-byte big-endian length prefix, then the string.
encode_hint(string) == to_be_bytes(Len(string)) \o string
\* String::from_utf8 of these bytes succeeds: one-byte characters and
\* two-byte sequences (a lead byte and a continuation byte).
RECURSIVE from_utf8_ok(_)
from_utf8_ok(bytes) ==
    IF bytes = <<>> THEN TRUE
    ELSE IF bytes[1] < 128 THEN from_utf8_ok(Tail(bytes))
    ELSE /\ bytes[1] \in 194..223
         /\ Len(bytes) >= 2
         /\ bytes[2] \in 128..191
         /\ from_utf8_ok(Tail(Tail(bytes)))

\* The host's callback: the bytes after the prefix, as a string, go to the
\* hint writer; an error at either step is returned and no acknowledgement is
\* sent; otherwise the acknowledgement is the byte 1.
write_hint_callback(hint_bytes, forward_ok) ==
    LET byte_vec == SubSeq(hint_bytes, 5, Len(hint_bytes)) IN
    IF ~from_utf8_ok(byte_vec) \/ ~forward_ok
    THEN [answered |-> FALSE, was_forwarded |-> FALSE, forwarded |-> <<>>, ack |-> <<>>]
    ELSE [answered |-> TRUE, was_forwarded |-> TRUE, forwarded |-> byte_vec, ack |-> <<1>>]

\* What a host may send back on the hint channel.
HintAcks == {<<>>, <<0>>, <<1>>, <<0, 0>>, <<1, 1>>}

\* "Did not receive hint acknowledgement from host".
hint_acknowledged(hint_ack) == hint_ack # <<>>

\* RISCZeroOracle::write(hint) against the host of prove_zkvm_client
\* ("kailua"), whose failing callback ends the execution, or against any
\* other host, which answers the syscall with any bytes.
RISCZeroOracle_write ==
    /\ \E h \in Hints, host \in {"kailua", "other"}, forward_ok \in BOOLEAN,
          other_ack \in HintAcks :
           LET hint_bytes == encode_hint(h)
               reply == write_hint_callback(hint_bytes, forward_ok)
           IN
           IF host = "kailua"
           THEN /\ other_ack = <<>>
                /\ hint' = [host |-> host, string |-> h, hint_bytes |-> hint_bytes,
                            was_forwarded |-> reply.was_forwarded,
                            forwarded |-> reply.forwarded, ack |-> reply.ack,
                            result |-> IF ~reply.answered THEN "abort"
                                       ELSE IF hint_acknowledged(reply.ack) THEN "ok"
                                       ELSE "err"]
           ELSE /\ forward_ok
                /\ hint' = [host |-> host, string |-> h, hint_bytes |-> hint_bytes,
                            was_forwarded |-> FALSE, forwarded |-> <<>>,
                            ack |-> other_ack,
                            result |-> IF hint_acknowledged(other_ack) THEN "ok" ELSE "err"]
    /\ UNCHANGED <<coreVars, oracle, stream, files, submission, treasury, tasks>>

HintNext == RISCZeroOracle_write
HintSpec == OracleInit /\ [][HintNext]_vars

\* C22: write returns Ok only when the acknowledgement is a single nonzero
\* byte, returns an error when it is empty or a zero byte, and the host of
\* prove_zkvm_client acknowledges only a hint it has forwarded.
C22_HintAcknowledged ==
    /\ hint.result = "ok" => (Len(hint.ack) = 1 /\ hint.ack[1] # 0)
    /\ (hint.result # "none" /\ (hint.ack = <<>> \/ hint.ack = <<0>>))
          => hint.result # "ok"
    /\ (hint.host = "kailua" /\ hint.ack # <<>>)
          => (hint.was_forwarded
              /\ encode_hint(hint.forwarded) = hint.hint_bytes)

(***************************************************************************)
(* Stream endpoint of the host: POSIXPreimageOracleClient (client/lib.rs). *)
(***************************************************************************)
\* Longest preimage of the model, in bytes, and the largest read buffer.
MaxPreimageLen == 3
MaxReadLen == 2
PreimageBytes == {0, 1}
Preimages == SeqsUpTo(PreimageBytes, MaxPreimageLen)
\* Lengths of the buffer handed to write: a key has 32 bytes.
KeyLen == 32
WriteLens == {KeyLen - 1, KeyLen, KeyLen + 1}

\* BufReader<VecDeque<u8>>::read(buf): the next bytes, as many as buf takes,
\* leave the reader.
reader_read(reader, n) == SubSeq(reader, 1, IF n < Len(reader) THEN n ELSE Len(reader))
reader_rest_kept(reader, n) == reader
reader_rest(reader, n) ==
    SubSeq(reader, (IF n < Len(reader) THEN n ELSE Len(reader)) + 1, Len(reader))

\* Write::write(buf): a buffer that is no 32-byte key is refused; the key's
\* preimage is fetched from the oracle (the unwrap panics when the key does
\* not convert or the fetch fails) and replaces the reader.
POSIXPreimageOracleClient_write ==
    /\ stream.last.result # "panic"
    /\ \E len \in WriteLens, fetch_ok \in BOOLEAN, preimage \in Preimages :
          IF len # KeyLen
          THEN /\ fetch_ok /\ preimage = <<>>
               /\ stream' = [stream EXCEPT
                     !.last = [op |-> "write", result |-> "err", bytes |-> <<>>]]
          ELSE IF ~fetch_ok
          THEN /\ preimage = <<>>
               /\ stream' = [stream EXCEPT
                     !.last = [op |-> "write", result |-> "panic", bytes |-> <<>>]]
          ELSE stream' = [some |-> TRUE, reader |-> preimage,
                          fetched |-> preimage, delivered |-> <<>>,
                          last |-> [op |-> "write", result |-> "ok", bytes |-> <<>>]]
    /\ UNCHANGED <<coreVars, oracle, hint, files, submission, treasury, tasks>>

\* Read::read(buf): from the reader when there is one, else an error.
POSIXPreimageOracleClient_read ==
    /\ stream.last.result # "panic"
    /\ \E n \in 0..MaxReadLen :
          IF ~stream.some
          THEN /\ n = MaxReadLen
               /\ stream' = [stream EXCEPT
                     !.last = [op |-> "read", result |-> "err", bytes |-> <<>>]]
          ELSE LET bytes == reader_read(stream.reader, n) IN
               stream' = [stream EXCEPT
                     !.reader = reader_rest(stream.reader, n),
                     !.delivered = @ \o bytes,
                     !.last = [op |-> "read", result |-> "ok", bytes |-> bytes]]
    /\ UNCHANGED <<coreVars, oracle, hint, files, submission, treasury, tasks>>

StreamNext ==
    \/ POSIXPreimageOracleClient_write
    \/ POSIXPreimageOracleClient_read
StreamSpec == OracleInit /\ [][StreamNext]_vars

\* C23: a write of a 32-byte key that returns makes the fetched preimage the
\* response; the reads after it return that preimage's bytes in order, each
\* once (what was returned, then what is left, is always the preimage), and 0
\* bytes once it is used up; a read without a response and a write of another
\* length fail and leave the response as it was.
C23_StreamDrainsResponse ==
    [][LET call == stream'.last IN
       /\ (call.op = "write" /\ call.result = "ok") =>
             (stream'.some /\ stream'.reader = stream'.fetched
              /\ stream'.delivered = <<>>)
       /\ (call.op = "read" /\ stream.some) =>
             /\ call.result = "ok"
             /\ stream'.delivered = stream.delivered \o call.bytes
             /\ stream'.delivered \o stream'.reader = stream.fetched
             /\ stream'.fetched = stream.fetched
             /\ stream.reader = <<>> => call.bytes = <<>>
             /\ (stream.reader # <<>> /\ call.bytes = <<>>) =>
                   stream'.reader = stream.reader
       /\ (call.op = "read" /\ ~stream.some) =>
             (call.result = "err" /\ ~stream'.some /\ stream'.reader = stream.reader)
       /\ (call.op = "write" /\ call.result = "err") =>
             (stream'.some = stream.some /\ stream'.reader = stream.reader)]_vars

\* C23 happens: a preimage of the greatest length was read to its end, which
\* takes more than one read, and the last read returned 0 bytes.
C23_Witness ==
    /\ Len(stream.fetched) = MaxPreimageLen
    /\ stream.delivered = stream.fetched
    /\ stream.last.op = "read" /\ stream.last.result = "ok"
    /\ stream.last.bytes = <<>>

(***************************************************************************)
(* Proof artifacts: fpvm_proof_file_name (client/lib.rs) as handle_proofs  *)
(* uses it to find the artifact of a request.                              *)
(***************************************************************************)
\* Proof requests handled in one run of the model.
MaxRequests == 2
FileHashes == {0, 1}
FileBlocks == {1, 2}
\* The five values handle_proofs hands to fpvm_proof_file_name.
ProofRequests ==
    [precondition_hash : FileHashes, l1_head : FileHashes,
     claimed_l2_output_root : FileHashes, claimed_l2_block_number : FileBlocks,
     agreed_l2_output_root : FileHashes]

\* fpvm_proof_file_name(l1_head, l2_claim, l2_output_root): the Keccak hash of
\* KAILUA_FPVM_ID, l1_head, l2_output_root and l2_claim, between the version
\* and the suffix.  The hash is kept as the data it is taken of (no
\* collisions); l2_claim is the claimed and l2_output_root the agreed root.
fpvm_proof_file_name(l1_head, l2_claim, l2_output_root) ==
    <<"risc0", "KAILUA_FPVM_ID", l1_head, l2_output_root, l2_claim, "zkp">>

\* The name handle_proofs computes for a request.
proof_file_name(request) ==
    fpvm_proof_file_name(request.l1_head, request.claimed_l2_output_root,
                         request.agreed_l2_output_root)

\* One request in handle_proofs: the file name, the subprocess (which writes
\* the artifact of this request under that name, or fails and writes
\* nothing), and the read of the file of that name when there is one.
handle_proofs_artifact ==
    /\ files.handled < MaxRequests
    /\ \E request \in ProofRequests, proved \in BOOLEAN :
          LET name == proof_file_name(request)
              artifacts ==
                  IF proved
                  THEN {a \in files.artifacts : a.name # name}
                           \cup {[name |-> name, request |-> request]}
                  ELSE files.artifacts
              found == {a \in artifacts : a.name = name}
          IN
          files' = [artifacts |-> artifacts,
                    named |-> files.named \cup {[name |-> name, request |-> request]},
                    handled |-> files.handled + 1,
                    last |-> <<request>>,
                    read |-> IF found = {} THEN <<>>
                             ELSE <<(CHOOSE a \in found : TRUE).request>>]
    /\ UNCHANGED <<coreVars, oracle, hint, stream, submission, treasury, tasks>>

FileNameNext == handle_proofs_artifact
FileNameSpec == OracleInit /\ [][FileNameNext]_vars

\* C24: requests that differ in one of the five values get different file
\* names, and the artifact read for a request was written for that request.
C24_FileNameInjective ==
    /\ \A a, b \in files.named : a.request # b.request => a.name # b.name
    /\ files.read # <<>> => files.read = files.last

(***************************************************************************)
(* The data of prove: the KZG openings, the checks of the outputs and the   *)
(* two outputs submitted, for siblings of up to three outputs.             *)
(***************************************************************************)
\* Most intermediate outputs (io_field_elements) of a proposal.
MaxFieldElements == 2
OutputValues == {0, 1}
\* A sibling: its intermediate outputs and its output root.
Siblings(n) ==
    [io_field_elements : {q \in SeqsUpTo(OutputValues, n) : Len(q) = n},
     output_root : OutputValues]

\* Proposal::output_at(position): an intermediate output, or the output root
\* at the last position.
Proposal_output_at(proposal, position) ==
    IF position < Len(proposal.io_field_elements)
    THEN proposal.io_field_elements[position + 1]
    ELSE proposal.output_root

\* The positions opened for one side, in the order they are pushed: the
\* agreed output's (challenge_position - 1), then the claimed output's.
kzg_openings(position, claimed_l2_block_number, output_block_number) ==
    (IF has_lower_opening(position) THEN <<position - 1>> ELSE <<>>)
    \o (IF is_intermediate(claimed_l2_block_number, output_block_number)
        THEN <<position>> ELSE <<>>)

\* The positions verifyIntermediateOutput is called for on each side: the
\* claimed position unless it is the proposal's last block, and the agreed
\* position unless the siblings agree on the parent's output only.
verified_positions_claimed(position, claimed_l2_block_number, output_block_number) ==
    {position} \cup (IF position = 0 THEN {} ELSE {position - 1})
verified_positions(position, claimed_l2_block_number, output_block_number) ==
    (IF claimed_l2_block_number = output_block_number THEN {} ELSE {position})
    \cup (IF position = 0 THEN {} ELSE {position - 1})

\* IKailuaTournament.verifyIntermediateOutput(position, output, commitment,
\* proof) of a sibling's contract: the opening is the one of that position and
\* the sibling published that output there.  An opening is modelled by the
\* position it opens.
verifyIntermediateOutput(proposal, position, output, opening) ==
    opening = position /\ Proposal_output_at(proposal, position) = output

\* The opening handed over with the agreed output: the first of the side
\* (None where first() has nothing to unwrap).
agreed_opening_last(side_openings) ==
    IF side_openings = <<>> THEN None ELSE side_openings[Len(side_openings)]
agreed_opening(side_openings) ==
    IF side_openings = <<>> THEN None ELSE Head(side_openings)

\* The calls of verifyIntermediateOutput made for the journal's agreed
\* output: <<side, position, opening>>.
agreed_output_calls(position, opened) ==
    IF position = 0 THEN {}
    ELSE {<<side, position - 1, agreed_opening(opened[side])>> : side \in 1..2}

\* is_agreed_output_confirmed: equality with the parent's output root at
\* position 0, otherwise both siblings' contracts must verify it.
is_agreed_output_confirmed(parent_root, agreed_root, siblings, position, opened) ==
    IF position = 0 THEN parent_root = agreed_root
    ELSE \A call \in agreed_output_calls(position, opened) :
            verifyIntermediateOutput(siblings[call[1]], call[2], agreed_root, call[3])

\* Proposal::has_precondition_for(position) of a proposal that ends at
\* output_block_number.
Proposal_has_precondition_for(output_block_number, position) ==
    position > 0 /\ position + 1 < output_block_number - AnchorBlock

\* The journal's precondition_output is compared when a side has two proofs.
precondition_compared_any(side_proofs) == Len(side_proofs) >= 1
precondition_compared(side_proofs) == Len(side_proofs) = 2

\* The block the journal is expected to claim.
expected_block_number(position) == AnchorBlock + position + 1

\* The output root of the anchor, the parent of both siblings.
AnchorOutputRoot == 0

\* What the cross-checks after the openings warn about.
submission_warnings(claimed, position, agreed_confirmed, compared, matches) ==
    (IF agreed_confirmed THEN {} ELSE {"agreed_output"})
    \cup (IF compared /\ ~matches THEN {"precondition"} ELSE {})
    \cup (IF expected_block_number(position) # claimed THEN {"block_number"} ELSE {})

\* The drain body from the openings to the arguments of prove, for a journal
\* whose claimed block is one of the proposal's.  A KZG proof that cannot be
\* computed is an error and nothing is sent.
handle_proposals_submission ==
    /\ \E n \in 0..MaxFieldElements :
       \E c \in Siblings(n), p \in Siblings(n),
          claimed_l2_block_number \in (AnchorBlock + 1)..(AnchorBlock + n + 1),
          agreed_l2_output_root \in OutputValues,
          kzg_ok \in BOOLEAN, precondition_matches \in BOOLEAN :
          LET output_block_number == AnchorBlock + n + 1
              position == claimed_l2_block_number - AnchorBlock - 1
              opened == kzg_openings(position, claimed_l2_block_number,
                                     output_block_number)
              sent == kzg_ok \/ opened = <<>>
              agreed_confirmed ==
                  is_agreed_output_confirmed(AnchorOutputRoot, agreed_l2_output_root,
                                             <<c, p>>, position, <<opened, opened>>)
          IN
          submission' =
              [prepared |-> TRUE, sent |-> sent,
               contender |-> c, proposal |-> p,
               output_block_number |-> output_block_number,
               claimed_l2_block_number |-> claimed_l2_block_number,
               challenge_position |-> position,
               commitments |-> IF sent THEN <<opened, opened>> ELSE <<<<>>, <<>>>>,
               proofs |-> IF sent THEN <<opened, opened>> ELSE <<<<>>, <<>>>>,
               verified |-> IF sent
                            THEN verified_positions(position, claimed_l2_block_number,
                                                    output_block_number)
                            ELSE {},
               outputs |-> IF sent
                           THEN <<Proposal_output_at(c, position),
                                  Proposal_output_at(p, position)>>
                           ELSE <<0, 0>>,
               agreed_l2_output_root |-> agreed_l2_output_root,
               agreed_calls |-> IF sent
                                THEN agreed_output_calls(position, <<opened, opened>>)
                                ELSE {},
               is_agreed_output_confirmed |-> sent /\ agreed_confirmed,
               precondition_compared |-> sent /\ precondition_compared(opened),
               warnings |-> IF sent
                            THEN submission_warnings(
                                     claimed_l2_block_number, position,
                                     agreed_confirmed, precondition_compared(opened),
                                     precondition_matches)
                            ELSE {}]
    /\ UNCHANGED <<coreVars, oracle, hint, stream, files, treasury, tasks>>

SubmissionNext == handle_proposals_submission
SubmissionSpec == OracleInit /\ [][SubmissionNext]_vars

\* C25: each side of a prove carries an opening at challenge_position - 1
\* exactly when challenge_position > 0 and one at challenge_position exactly
\* when the claimed block is before the proposal's last; both sides carry as
\* many commitments as proofs, the same number (0, 1 or 2), the lower opening
\* first; at position 1 of three outputs these are positions 0 and 1.
C25_OpeningsPerSide ==
    LET s == submission
        position == s.challenge_position
    IN
    s.sent =>
       /\ \A side \in 1..2 :
             /\ (\E i \in DOMAIN s.commitments[side] :
                    s.commitments[side][i] = position - 1) <=> position > 0
             /\ (\E i \in DOMAIN s.commitments[side] :
                    s.commitments[side][i] = position)
                   <=> s.claimed_l2_block_number < s.output_block_number
             /\ Len(s.commitments[side]) \in 0..2
             /\ Len(s.proofs[side]) = Len(s.commitments[side])
             /\ s.proofs[side] = s.commitments[side]
             /\ Len(s.commitments[side]) = 2 =>
                   s.commitments[side] = <<position - 1, position>>
             /\ (Len(s.contender.io_field_elements) = 2 /\ position = 1) =>
                   s.commitments[side] = <<0, 1>>
       /\ Len(s.commitments[1]) = Len(s.commitments[2])

\* C25 happens: a prove for position 1 of three outputs.
C25_Witness ==
    /\ submission.sent
    /\ Len(submission.contender.io_field_elements) = 2
    /\ submission.challenge_position = 1
    /\ submission.commitments = <<<<0, 1>>, <<0, 1>>>>

\* C26: when the claimed block is the proposal's last block,
\* verifyIntermediateOutput is not called for challenge_position and the two
\* outputs handed to prove are the contender's and the proposal's output
\* root.
C26_EndpointBranch ==
    LET s == submission IN
    (s.sent /\ s.claimed_l2_block_number = s.output_block_number) =>
       /\ s.challenge_position \notin s.verified
       /\ s.outputs = <<s.contender.output_root, s.proposal.output_root>>

\* C26 happens: siblings of three outputs that differ only in the output
\* root, and a prove for the last block.
C26_Witness ==
    /\ submission.sent
    /\ submission.claimed_l2_block_number = submission.output_block_number
    /\ Len(submission.contender.io_field_elements) = 2
    /\ submission.contender.io_field_elements = submission.proposal.io_field_elements
    /\ submission.contender.io_field_elements = <<1, 1>>
    /\ submission.contender.output_root # submission.proposal.output_root
    /\ submission.contender.output_root = 0

(***************************************************************************)
(* Treasury (db/treasury.rs): the watcher's view of the treasury contract. *)
(***************************************************************************)
\* What a contract call answers: a value, or None when the call fails.
MaxChainValue == 1
ChainAnswers == (0..MaxChainValue) \cup {None}

\* HashMap::contains_key.
contains_key_never(map, address) == FALSE
contains_key(map, address) == map[address] # None

\* A fetch as recorded in last.
Fetch(op, address, calls, answer, result, value) ==
    [op |-> op, address |-> address, calls |-> calls, answer |-> answer,
     result |-> result, value |-> value]

\* The read-through of fetch_proposer and fetch_elimination_round on the map
\* named field: a contract call only without an entry, whose failure is
\* returned before the insert.
read_through(field, op, address, answer) ==
    IF contains_key(treasury[field], address)
    THEN [treasury EXCEPT
            !.last = Fetch(op, address, 0, None, "ok", treasury[field][address])]
    ELSE IF answer = None
    THEN [treasury EXCEPT !.last = Fetch(op, address, 1, None, "err", None)]
    ELSE [treasury EXCEPT
            ![field][address] = answer,
            !.last = Fetch(op, address, 1, answer, "ok", answer)]

Treasury_fetch_proposer ==
    /\ \E address \in TreasuryAddresses, answer \in ChainAnswers :
          treasury' = read_through("claim_proposer", "fetch_proposer", address, answer)
    /\ UNCHANGED <<coreVars, oracle, hint, stream, files, submission, tasks>>

Treasury_fetch_elimination_round ==
    /\ \E address \in TreasuryAddresses, answer \in ChainAnswers :
          treasury' = read_through("elimination_round", "fetch_elimination_round",
                                   address, answer)
    /\ UNCHANGED <<coreVars, oracle, hint, stream, files, submission, tasks>>

\* fetch_balance: paidBonds(address) is called every time; its result is
\* inserted and returned.
Treasury_fetch_balance ==
    /\ \E address \in TreasuryAddresses, answer \in ChainAnswers :
          treasury' =
              IF answer = None
              THEN [treasury EXCEPT
                      !.last = Fetch("fetch_balance", address, 1, None, "err", None)]
              ELSE [treasury EXCEPT
                      !.paid_bond[address] = answer,
                      !.last = Fetch("fetch_balance", address, 1, answer, "ok", answer)]
    /\ UNCHANGED <<coreVars, oracle, hint, stream, files, submission, tasks>>

\* fetch_bond: participationBond() is called every time; its result is stored
\* and returned.
Treasury_fetch_bond ==
    /\ \E answer \in ChainAnswers :
          treasury' =
              IF answer = None
              THEN [treasury EXCEPT
                      !.last = Fetch("fetch_bond", 0, 1, None, "err", None)]
              ELSE [treasury EXCEPT
                      !.participation_bond = answer,
                      !.last = Fetch("fetch_bond", 0, 1, answer, "ok", answer)]
    /\ UNCHANGED <<coreVars, oracle, hint, stream, files, submission, tasks>>

TreasuryNext ==
    \/ Treasury_fetch_proposer
    \/ Treasury_fetch_elimination_round
    \/ Treasury_fetch_balance
    \/ Treasury_fetch_bond
TreasurySpec == OracleInit /\ [][TreasuryNext]_vars

\* The Treasury without the record of the last fetch.
Stored(t) == <<t.participation_bond, t.paid_bond, t.claim_proposer, t.elimination_round>>
ReadThroughField(op) ==
    IF op = "fetch_proposer" THEN "claim_proposer" ELSE "elimination_round"

\* C27: fetch_proposer and fetch_elimination_round call the contract only
\* for an address without a stored value and store what it returns; with a
\* stored value they return it without a call; a failed call stores nothing.
\* fetch_balance and fetch_bond call the contract every time and overwrite
\* the stored value with what it returned.
C27_TreasuryReadThrough ==
    [][LET call == treasury'.last
           field == ReadThroughField(call.op)
       IN
       /\ call.op \in {"fetch_proposer", "fetch_elimination_round"} =>
             IF treasury[field][call.address] # None
             THEN /\ call.calls = 0 /\ call.result = "ok"
                  /\ call.value = treasury[field][call.address]
                  /\ Stored(treasury') = Stored(treasury)
             ELSE /\ call.calls = 1
                  /\ IF call.answer = None
                     THEN call.result = "err" /\ Stored(treasury') = Stored(treasury)
                     ELSE /\ call.result = "ok" /\ call.value = call.answer
                          /\ treasury'[field] =
                                [treasury[field] EXCEPT ![call.address] = call.answer]
       /\ call.op \in {"fetch_balance", "fetch_bond"} =>
             /\ call.calls = 1
             /\ IF call.answer = None
                THEN call.result = "err" /\ Stored(treasury') = Stored(treasury)
                ELSE /\ call.result = "ok" /\ call.value = call.answer
                     /\ call.op = "fetch_balance" =>
                           treasury'.paid_bond =
                              [treasury.paid_bond EXCEPT ![call.address] = call.answer]
                     /\ call.op = "fetch_bond" =>
                           treasury'.participation_bond = call.answer]_vars

\* C27 happens: a proposer was returned from the Treasury without a call, and
\* a balance was fetched over a stored one.
C27_Witness ==
    /\ treasury.last.op = "fetch_proposer"
    /\ treasury.last.calls = 0 /\ treasury.last.result = "ok"
    /\ treasury.last.value = treasury.claim_proposer[treasury.last.address]
    /\ \E a \in TreasuryAddresses : treasury.paid_bond[a] # None

(***************************************************************************)
(* The two tasks on the channel with a batch of contested proposals larger *)
(* than the queues: every proposal loaded has a contender and an unproven  *)
(* match, so each one is requested.  The tasks' other steps are the ones   *)
(* above.                                                                  *)
(***************************************************************************)
\* Contested proposals the factory ever holds: one more than the channel and
\* the two tasks can hold between them.
ContestedProposals == 2 * ChannelCapacity + 2

\* load_proposals: the new slots up to the game count observed, all of them
\* contested; its error is returned.
handle_proposals_load_contested ==
    /\ Alive /\ pcW = "loop"
    /\ \/ /\ pcW' = "err" /\ curW' = Failure("rpc")
          /\ UNCHANGED <<next_factory_index, loaded_proposals>>
       \/ \E k \in next_factory_index..ContestedProposals :
             /\ loaded_proposals' = load_proposals(k)
             /\ next_factory_index' = k
             /\ curW' = curW
             /\ pcW' = IF k = next_factory_index THEN "drain" ELSE "examine"
    /\ UNCHANGED <<chainVars, proofStatus, proverVars, reqQ, repQ, pcV, hist>>
    /\ UNCHANGED sideVars

\* One pass of the for loop for a contested, unproven proposal: request_proof
\* up to its send.
handle_proposals_examine_contested ==
    /\ Alive /\ pcW = "examine" /\ loaded_proposals # <<>>
    /\ LET p == NextProposal(loaded_proposals) IN
       /\ loaded_proposals' = RestProposals(loaded_proposals)
       /\ ShouldRequest(0)
       /\ \E rpc_ok \in BOOLEAN :
             IF rpc_ok
             THEN /\ pcW' = "send"
                  /\ curW' = [type |-> "Proposal", index |-> p,
                              has_precondition |-> FALSE,
                              claimed_l2_block_number |-> AnchorBlock + 1]
             ELSE pcW' = "err" /\ curW' = Failure("rpc")
    /\ UNCHANGED <<chainVars, proofStatus, next_factory_index, proverVars,
                   reqQ, repQ, pcV, hist>>
    /\ UNCHANGED sideVars

\* The body of the drain loop for one reply: it ends in the next turn of the
\* drain, or in an error.
handle_proposals_receive_contested ==
    /\ Alive /\ pcW = "drain" /\ ~is_empty(repQ)
    /\ repQ' = Tail(repQ)
    /\ \E ok \in BOOLEAN :
          IF ok THEN pcW' = "drain" /\ curW' = NoMessage
          ELSE pcW' = "err" /\ curW' = Failure("rpc")
    /\ hist' = [hist EXCEPT !.repRcvd = Append(@, Head(repQ).index)]
    /\ UNCHANGED <<chainVars, proofStatus, next_factory_index, loaded_proposals,
                   proverVars, reqQ, pcV>>
    /\ UNCHANGED sideVars

ThrottleNext ==
    \/ handle_proposals_init
    \/ handle_proposals_load_contested
    \/ handle_proposals_examine_contested
    \/ request_proof_send
    \/ handle_proposals_receive_contested
    \/ handle_proposals_drained
    \/ handle_proofs_init
    \/ handle_proofs_recv
    \/ handle_proofs_wait
    \/ handle_proofs_send
    \/ validate_join
ThrottleSpec == OracleInit /\ [][ThrottleNext]_vars

\* The watcher waits in its send for room in the request queue.
WatcherBlocked == pcW = "send" /\ pcP \notin Ended /\ ~HasRoom(reqQ)
\* The prover-driver waits in its send for room in the reply queue.
ProverBlocked == pcP = "send" /\ pcW \notin Ended /\ ~HasRoom(repQ)

\* C28: the watcher is never waiting to send a request into a full queue
\* while the prover-driver is waiting to send a reply into a full queue.
C28_NoChannelDeadlock == ~(Alive /\ WatcherBlocked /\ ProverBlocked)

\* a is b with some elements left out.
RECURSIVE IsSubsequence(_, _)
IsSubsequence(a, b) ==
    IF a = <<>> THEN TRUE
    ELSE IF b = <<>> THEN FALSE
    ELSE IF Head(a) = Head(b) THEN IsSubsequence(Tail(a), Tail(b))
    ELSE IsSubsequence(a, Tail(b))

SharedKeys == {k \in PreimageKeys : k.type = "Local"}

\* self.cache.lock(): the caller takes the free lock, or spins.
CachingOracle_get_lock ==
    /\ \E c \in Callers, key \in SharedKeys :
          /\ tasks.pc[c] = "idle"
          /\ tasks' = IF tasks.lock = 0
                      THEN [tasks EXCEPT !.lock = c, !.pc[c] = "locked", !.key[c] = key]
                      ELSE [tasks EXCEPT !.pc[c] = "spin", !.key[c] = key]
    /\ UNCHANGED <<coreVars, oracle, hint, stream, files, submission, treasury>>

\* A spinning caller gets the lock once it is free.
CachingOracle_get_spin ==
    /\ \E c \in Callers :
          /\ tasks.pc[c] = "spin" /\ tasks.lock = 0
          /\ tasks' = [tasks EXCEPT !.lock = c, !.pc[c] = "locked"]
    /\ UNCHANGED <<coreVars, oracle, hint, stream, files, submission, treasury>>

\* cache_lock.get(&key): a hit returns the clone and drops the guard; a miss
\* goes on to ORACLE_READER.get(key).await with the guard alive.
CachingOracle_get_lookup ==
    /\ \E c \in Callers :
          /\ tasks.pc[c] = "locked"
          /\ IF cache_get(oracle.cache, tasks.key[c]) # None
             THEN /\ oracle' = [oracle EXCEPT
                                   !.cache = cache_promote(oracle.cache, tasks.key[c])]
                  /\ tasks' = [tasks EXCEPT !.lock = 0, !.pc[c] = "idle"]
             ELSE /\ oracle' = oracle
                  /\ tasks' = [tasks EXCEPT !.pc[c] = "fetch"]
    /\ UNCHANGED <<coreVars, hint, stream, files, submission, treasury>>

\* The host's answer arrives: an error is returned, a value is put into the
\* cache; either way the function ends and the guard is dropped.
CachingOracle_get_fetched ==
    /\ \E c \in Callers, response \in HostResponses :
          /\ tasks.pc[c] = "fetch"
          /\ oracle' = IF response = None THEN oracle
                       ELSE [oracle EXCEPT
                               !.cache = cache_put(oracle.cache, tasks.key[c], response)]
          /\ tasks' = [tasks EXCEPT
                         !.lock = IF tasks.lock = c THEN 0 ELSE @,
                         !.pc[c] = "idle"]
    /\ UNCHANGED <<coreVars, hint, stream, files, submission, treasury>>

SharedOracleNext ==
    \/ CachingOracle_get_lock
    \/ CachingOracle_get_spin
    \/ CachingOracle_get_lookup
    \/ CachingOracle_get_fetched
SharedOracleSpec == OracleInit /\ [][SharedOracleNext]_vars

\* C30: no caller is suspended on the host fetch while it holds the cache
\* lock, so no other caller spins on the lock during a host fetch.
C30_LockNotHeldAcrossFetch ==
    /\ \A c \in Callers : tasks.pc[c] = "fetch" => tasks.lock # c
    /\ \A c, d \in Callers : ~(tasks.pc[c] = "fetch" /\ tasks.pc[d] = "spin")

(***************************************************************************)
(* The prover-driver's subprocesses (validate.rs, handle_proofs).          *)
(***************************************************************************)
\* C31: the prover-driver handles one request at a time: at most one
\* kailua-host subprocess exists in any state, a Proposal is dequeued only
\* when no subprocess is left from the previous request, and when the task
\* is cancelled (validate returns) while a subprocess runs, that subprocess
\* is killed.
C31_OneSubprocess ==
    /\ [](children \in {0, 1})
    /\ [][hist'.reqRcvd # hist.reqRcvd => children = 0]_vars
    /\ [][pcV' # "join" => children' = 0]_vars
\* The task was cancelled while it waited for a subprocess, which is gone.
C31_Witness == pcV # "join" /\ pcP = "wait" /\ children = 0

(***************************************************************************)
(* The block a request names and the position a reply is read at.          *)
(***************************************************************************)
\* The requests that have been built and not yet dequeued by the prover.
PendingRequests ==
    Range(reqQ) \cup (IF pcW = "send" /\ curW.type = "Proposal" THEN {curW} ELSE {})

\* C32: a request built by request_proof for a proposal with contender c and
\* divergence point d asks for the agreed head at block parent + d and
\* carries claimed_l2_block_number = parent + d + 1, so the challenge
\* position the watcher computes from a journal that reports this block is d.
C32_RequestNamesDivergence ==
    \A m \in PendingRequests :
       LET d == divergence_point(proposal_contender(m.index), m.index) IN
       /\ d # None
       /\ agreed_l2_head_number(d) = AnchorBlock + d
       /\ m.claimed_l2_block_number = AnchorBlock + d + 1
       /\ challenge_position(m.claimed_l2_block_number) = d
\* A request is pending for a proposal that diverges after the first output.
C32_Witness ==
    \E m \in PendingRequests :
       divergence_point(proposal_contender(m.index), m.index) > 0

(***************************************************************************)
(* The cross-checks of a reply after the openings (validate.rs 418-512).   *)
(***************************************************************************)
\* The first position where two siblings disagree, None when they agree.
Siblings_divergence_point(c, p) ==
    LET positions == 0..Len(p.io_field_elements)
        differ == {i \in positions : Proposal_output_at(c, i) # Proposal_output_at(p, i)}
    IN IF differ = {} THEN None
       ELSE CHOOSE i \in differ : \A j \in differ : i <= j

\* C33: the check of the journal's claimed_l2_block_number is a real
\* constraint: a journal that claims a block other than the one requested
\* for the proposal (the parent's block + the divergence point + 1) is
\* reported as a block-number mismatch.
C33_BlockNumberChecked ==
    LET s == submission
        d == Siblings_divergence_point(s.contender, s.proposal)
    IN
    (s.sent /\ d # None /\ s.claimed_l2_block_number # AnchorBlock + d + 1)
       => "block_number" \in s.warnings

\* C34: the journal's precondition_output is compared exactly when
\* has_precondition_for(challenge_position) holds: a side carries two
\* openings iff challenge_position > 0 and the claimed block is before the
\* proposal's last, iff position > 0 and position + 1 is less than the number
\* of blocks of the proposal.
C34_PreconditionCompared ==
    LET s == submission
        position == s.challenge_position
    IN
    s.sent =>
       /\ s.precondition_compared
             <=> Proposal_has_precondition_for(s.output_block_number, position)
       /\ s.precondition_compared
             <=> (position > 0 /\ s.claimed_l2_block_number < s.output_block_number)
       /\ "precondition" \in s.warnings => s.precondition_compared
\* A reply at position 1 of three outputs: the precondition is compared, and
\* a journal with another precondition_output is warned about.
C34_Witness ==
    /\ submission.sent
    /\ submission.challenge_position = 1
    /\ submission.output_block_number = AnchorBlock + 3
    /\ submission.precondition_compared
    /\ "precondition" \in submission.warnings

\* C35: at challenge_position 0 the journal's agreed_l2_output_root is
\* confirmed by equality with the parent's output root and no
\* verifyIntermediateOutput call is made for it; at a later position it is
\* verified at challenge_position - 1 on the contender's and the proposal's
\* contract with each side's lower opening, and it is confirmed only if both
\* calls succeed, i.e. both siblings published it there.
C35_AgreedOutputConfirmed ==
    LET s == submission
        position == s.challenge_position
    IN
    s.sent =>
       IF position = 0
       THEN /\ s.agreed_calls = {}
            /\ s.is_agreed_output_confirmed
                  <=> s.agreed_l2_output_root = AnchorOutputRoot
       ELSE /\ s.agreed_calls =
                  {<<side, position - 1, position - 1>> : side \in 1..2}
            /\ \A side \in 1..2 : s.commitments[side][1] = position - 1
            /\ s.is_agreed_output_confirmed
                  <=> /\ Proposal_output_at(s.contender, position - 1)
                            = s.agreed_l2_output_root
                      /\ Proposal_output_at(s.proposal, position - 1)
                            = s.agreed_l2_output_root
\* An agreed output at position 0 of an intermediate claim, where each side
\* carries two openings, that only one sibling published: not confirmed.
C35_Witness ==
    /\ submission.sent
    /\ submission.challenge_position = 1
    /\ Len(submission.commitments[1]) = 2
    /\ Proposal_output_at(submission.contender, 0) = submission.agreed_l2_output_root
    /\ Proposal_output_at(submission.proposal, 0) # submission.agreed_l2_output_root
    /\ ~submission.is_agreed_output_confirmed

(***************************************************************************)
(* Two calls of the stream oracle on the shared writer/reader pair         *)
(* (common/src/oracle.rs 82-106, client/src/lib.rs 56-138).                *)
(***************************************************************************)
\* RISCZeroPOSIXOracle::get has no .await between the write of the key and
\* the read of the response: once a call is polled, no other call of the
\* guest runs until it has read.
polled_exclusively_never(c) == TRUE
polled_exclusively(c) == \A o \in Callers : o # c => tasks.pc[o] # "written"

\* get(key) is called: the future exists and has not been polled.
RISCZeroPOSIXOracle_get_call ==
    /\ \E c \in Callers, key \in SharedKeys :
          /\ tasks.pc[c] = "idle"
          /\ tasks' = [tasks EXCEPT !.pc[c] = "called", !.key[c] = key,
                                    !.response_for[c] = NoKey]
    /\ UNCHANGED <<coreVars, oracle, hint, stream, files, submission, treasury>>

\* WRITER.lock().write(&key_bytes): the host fetches the preimage of the key
\* and makes it the pending response (POSIXPreimageOracleClient::write).
RISCZeroPOSIXOracle_get_write ==
    /\ \E c \in Callers, preimage \in Preimages :
          /\ tasks.pc[c] = "called"
          /\ polled_exclusively(c)
          /\ tasks' = [tasks EXCEPT !.pc[c] = "written",
                                    !.fetched_for = tasks.key[c]]
          /\ stream' = [some |-> TRUE, reader |-> preimage,
                        fetched |-> preimage, delivered |-> <<>>,
                        last |-> [op |-> "write", result |-> "ok", bytes |-> <<>>]]
    /\ UNCHANGED <<coreVars, oracle, hint, files, submission, treasury>>

\* READER.lock().read_to_end(&mut response): the pending response is read to
\* its end and the call returns.
RISCZeroPOSIXOracle_get_read ==
    /\ \E c \in Callers :
          /\ tasks.pc[c] = "written"
          /\ stream.some
          /\ tasks' = [tasks EXCEPT !.pc[c] = "idle",
                                    !.response_for[c] = tasks.fetched_for]
          /\ stream' = [stream EXCEPT
                 !.reader = reader_rest(stream.reader, Len(stream.reader)),
                 !.delivered = @ \o reader_read(stream.reader, Len(stream.reader)),
                 !.last = [op |-> "read", result |-> "ok", bytes |-> stream.reader]]
    /\ UNCHANGED <<coreVars, oracle, hint, files, submission, treasury>>

StreamPairNext ==
    \/ RISCZeroPOSIXOracle_get_call
    \/ RISCZeroPOSIXOracle_get_write
    \/ RISCZeroPOSIXOracle_get_read
StreamPairSpec == OracleInit /\ [][StreamPairNext]_vars

C37_ExactHitCopies ==
    LET call == oracle.last IN
    (call.client = "caching" /\ call.op = "get_exact" /\ call.requests = 0)
       => call.result = "ok"

(***************************************************************************)
(* The variants of the messages on the duplex channel.                     *)
(***************************************************************************)
\* C38: the chain-watcher only sends Message::Proposal and the prover-driver
\* only sends Message::Proof: every message queued for the prover is a
\* Proposal and every message queued for the watcher is a Proof, the watcher
\* never ends on a message of the wrong variant, and the prover-driver ends
\* at its recv only on Closed or after dequeuing a Proposal.
C38_NoUnexpectedMessage ==
    /\ [](/\ \A i \in DOMAIN reqQ : reqQ[i].type = "Proposal"
          /\ \A i \in DOMAIN repQ : repQ[i].type = "Proof"
          /\ ~(curW.type = "Failure" /\ curW.cause = "message"))
    /\ [][(pcP = "recv" /\ pcP' = "err") =>
             recv(reqQ, pcW \in Ended).type \in {"Proposal", "Closed"}]_vars
\* Both tasks have dequeued a message: the prover a request, the watcher the
\* reply to it.
C38_Witness == hist.reqRcvd # <<>> /\ hist.repRcvd # <<>>

(***************************************************************************)
(* Hint framing (common/src/oracle.rs 163-174, client/src/lib.rs 164-169). *)
(***************************************************************************)
\* u32::from_be_bytes.
from_be_bytes(b) == ((b[1] * 256 + b[2]) * 256 + b[3]) * 256 + b[4]

\* C39: for every hint the guest sends the 4-byte big-endian length of the
\* hint followed by its UTF-8 bytes, the prefix equals the number of bytes
\* that follow, the bytes after the prefix are valid UTF-8, and what the
\* host's handler forwards is exactly the original hint string.
C39_HintFramingRoundTrip ==
    hint.result # "none" =>
       /\ Len(hint.hint_bytes) = Len(hint.string) + 4
       /\ from_be_bytes(SubSeq(hint.hint_bytes, 1, 4)) = Len(hint.hint_bytes) - 4
       /\ SubSeq(hint.hint_bytes, 5, Len(hint.hint_bytes)) = hint.string
       /\ from_utf8_ok(SubSeq(hint.hint_bytes, 5, Len(hint.hint_bytes)))
       /\ hint.was_forwarded => hint.forwarded = hint.string
\* A hint with a two-byte character, more bytes than characters, was framed
\* and forwarded by the host.
C39_Witness ==
    /\ hint.host = "kailua" /\ hint.was_forwarded
    /\ \E i \in DOMAIN hint.string : hint.string[i] > 127
    /\ Len(hint.string) > MaxHintLen
    /\ hint.forwarded = hint.string

====
